---- MODULE Spec2Model ----
(***************************************************************************)
(* Model of the image downscaling page (the Home component).               *)
(*                                                                         *)
(* Representation                                                          *)
(*  - A string is a tuple of one-character strings, so that startsWith,    *)
(*    the extension-stripping regular expression and template literals     *)
(*    are computed character by character.  A character outside ASCII is   *)
(*    written as its code point, "U+6A2A".                                 *)
(*  - A scale factor s > 0 is the exact rational square s^2 = num/den.     *)
(*    1/Math.sqrt(2) is [num |-> 1, den |-> 2], 0.9 is [num |-> 81,        *)
(*    den |-> 100].  Products, comparisons and Math.round(n * s) are then  *)
(*    integer computations.  The IEEE double results of the source agree   *)
(*    with the exact ones except at exact ties: a product n * s is either  *)
(*    a tie k + 1/2 (s = w * 1/2 only) or at least 1/20 (rational scales), *)
(*    or far more than 2^-40 (irrational scales), away from one.  At a tie *)
(*    Math.round gives k + 1 unless the double product is below the tie,   *)
(*    which happens for 0.7 * 0.5 only (TieRoundsDown).                    *)
(*  - The model follows the version of the page with the width-scale and   *)
(*    file-size selections and the convert button.  The earlier version    *)
(*    (src/app/page.tsx) has the same resizeImage and the same type check   *)
(*    in handleFileChange, and generates the three variants in img.onload.  *)
(*  - Event-loop tasks are the actions.  The continuation of an async      *)
(*    handler after an await of an already settled promise is a microtask: *)
(*    it runs before any other task, so no other action is enabled while   *)
(*    one is queued.                                                       *)
(***************************************************************************)
EXTENDS Integers, Sequences, FiniteSets, TLC

VARIABLES
    originalImage,           \* useState: data URL of the preview, or Null
    originalInfo,            \* useState: {name,width,height,fileSize,type} or Null
    resizedImages,           \* useState: ResizedImage[]
    isProcessing,            \* useState: boolean
    selectedWidthScale,      \* useState: number
    selectedFileSizeScales,  \* useState: number[]
    loadedImage,             \* useState: HTMLImageElement or Null
    readers,                 \* FileReaders whose onload has not run yet, per file
    images,                  \* Image elements whose onload has not run yet, per file
    convert,                 \* queued continuation of handleConvert, or Null
    alerted,                 \* the rejection alert is open
    lastAccepted             \* history: the file most recently accepted, or Null

state == <<originalImage, originalInfo, resizedImages, isProcessing,
           selectedWidthScale, selectedFileSizeScales, loadedImage>>

vars == <<originalImage, originalInfo, resizedImages, isProcessing,
          selectedWidthScale, selectedFileSizeScales, loadedImage,
          readers, images, convert, alerted, lastAccepted>>

Null == [null |-> TRUE]

(***************************************************************************)
(* Bounds of the model.                                                    *)
(***************************************************************************)
\* FileReader / Image callbacks that may be pending at the same time.
MaxInFlight == 2
\* Largest byte count the platform encoder returns for a non-empty canvas.
MaxPayload == 3

(***************************************************************************)
(* Strings.                                                                *)
(***************************************************************************)
\* A faulty startsWith that accepts every string: NonImageChangesNothing
\* must fail with it.
StartsWithAlways(s, prefix) == TRUE

\* String.prototype.startsWith

StartsWith(s, prefix) ==
    /\ Len(s) >= Len(prefix)
    /\ SubSeq(s, 1, Len(prefix)) = prefix

\* name.replace(/\.[^/.]+$/, ""): drop a final ".ext" whose ext is one or
\* more characters other than "/" and "."
StripExt(name) ==
    LET hits == {i \in 1..Len(name) :
                    /\ name[i] = "."
                    /\ i < Len(name)
                    /\ \A j \in (i+1)..Len(name) : name[j] \notin {"/", "."}}
    IN  IF hits = {} THEN name
        ELSE SubSeq(name, 1, (CHOOSE i \in hits : \A j \in hits : i <= j) - 1)

(***************************************************************************)
(* Numbers.                                                                *)
(***************************************************************************)
RECURSIVE SqrtSearch(_, _, _)
SqrtSearch(n, lo, hi) ==
    IF lo >= hi THEN lo
    ELSE LET mid == (lo + hi + 1) \div 2
         IN  IF mid * mid <= n THEN SqrtSearch(n, mid, hi)
                               ELSE SqrtSearch(n, lo, mid - 1)

\* floor(sqrt(n))
ISqrt(n) == SqrtSearch(n, 0, IF n < 46340 THEN n ELSE 46340)

\* a * b of two scale factors
Times(a, b) == [num |-> a.num * b.num, den |-> a.den * b.den]

\* a === b, a > b of two scale factors
SameNumber(a, b) == a.num * b.den = b.num * a.den
Greater(a, b) == a.num * b.den > b.num * a.den

\* Math.floor(n * scale), used by the faulty resizeImageFloor
MathRoundFloor(n, scale) == ISqrt((n * n * scale.num) \div scale.den)

\* The largest power of two that is at most m, from p on
RECURSIVE Pow2Floor(_, _)
Pow2Floor(m, p) == IF 2 * p <= m THEN Pow2Floor(m, 2 * p) ELSE p

\* The double product n * scale falls below an exact tie k + 1/2.  Only
\* 0.7 * 0.5 can do that: as a double it is 0.35 - 0.1 * 2^-52, and n times it
\* rounds back to the tie 7n/20 unless 0.1 * n * 2^-52 exceeds half the
\* spacing of the doubles below the tie, i.e. n > 5 * 2^e for 2^e <= 7n/20.
TieRoundsDown(n, scale) ==
    /\ SameNumber(scale, [num |-> 49, den |-> 400])
    /\ (7 * n) % 20 = 10
    /\ n > 5 * Pow2Floor((7 * n) \div 20, 1)

\* Math.round(n * scale) = floor(n * scale + 1/2), scale = sqrt(num/den)
MathRoundTimes(n, scale) ==
    LET halfUp == (ISqrt((4 * n * n * scale.num) \div scale.den) + 1) \div 2
    IN  IF TieRoundsDown(n, scale) THEN halfUp - 1 ELSE halfUp

\* Math.round((len * 3) / 4)
MathRound3Quarters(len) == (6 * len + 4) \div 8

(***************************************************************************)
(* WIDTH_SCALE_OPTIONS, FILE_SIZE_OPTIONS                                  *)
(***************************************************************************)
WIDTH_SCALE_OPTIONS == <<
    [value |-> [num |-> 100, den |-> 100], label |-> <<"1","0","0","%">>],
    [value |-> [num |-> 81,  den |-> 100], label |-> <<"9","0","%">>],
    [value |-> [num |-> 64,  den |-> 100], label |-> <<"8","0","%">>],
    [value |-> [num |-> 49,  den |-> 100], label |-> <<"7","0","%">>],
    [value |-> [num |-> 25,  den |-> 100], label |-> <<"5","0","%">>] >>

FILE_SIZE_OPTIONS == <<
    [value |-> [num |-> 1, den |-> 2], label |-> <<"1","/","2">>, ratio |-> <<"1","-","2">>],
    [value |-> [num |-> 1, den |-> 4], label |-> <<"1","/","4">>, ratio |-> <<"1","-","4">>],
    [value |-> [num |-> 1, den |-> 8], label |-> <<"1","/","8">>, ratio |-> <<"1","-","8">>] >>

Range(s) == {s[i] : i \in 1..Len(s)}

\* Array.prototype.find: the first element with that value, or Null (undefined)
\* (a faulty find whose predicate accepts every option: LabelsIdentifyVariants
\* must fail with it)
FindFirst(options, v) == options[1]

Find(options, v) ==
    LET hits == {i \in 1..Len(options) : SameNumber(options[i].value, v)}
    IN  IF hits = {} THEN Null
        ELSE options[CHOOSE i \in hits : \A j \in hits : i <= j]

\* Array.prototype.sort((a, b) => b - a): stable insertion by descending value
RECURSIVE InsertDesc(_, _)
InsertDesc(sorted, x) ==
    IF sorted = <<>> THEN <<x>>
    ELSE IF Greater(x, Head(sorted)) THEN <<x>> \o sorted
    ELSE <<Head(sorted)>> \o InsertDesc(Tail(sorted), x)

RECURSIVE SortDesc(_)
SortDesc(a) ==
    IF a = <<>> THEN <<>>
    ELSE InsertDesc(SortDesc(SubSeq(a, 1, Len(a) - 1)), a[Len(a)])

\* sort((a, b) => a - b), the comparator reversed
RECURSIVE InsertAsc(_, _)
InsertAsc(sorted, x) ==
    IF sorted = <<>> THEN <<x>>
    ELSE IF Greater(Head(sorted), x) THEN <<x>> \o sorted
    ELSE <<Head(sorted)>> \o InsertAsc(Tail(sorted), x)

RECURSIVE SortAsc(_)
SortAsc(a) ==
    IF a = <<>> THEN <<>>
    ELSE InsertAsc(SortAsc(SubSeq(a, 1, Len(a) - 1)), a[Len(a)])

(***************************************************************************)
(* The files the user can pick.  width and height are what the browser     *)
(* decodes from the content; size is File.size.                            *)
(***************************************************************************)
IMAGE_PREFIX == <<"i","m","a","g","e","/">>
IMAGE_PNG    == <<"i","m","a","g","e","/","p","n","g">>
IMAGE_JPEG   == <<"i","m","a","g","e","/","j","p","e","g">>
IMAGE_WEBP   == <<"i","m","a","g","e","/","w","e","b","p">>
TEXT_PLAIN   == <<"t","e","x","t","/","p","l","a","i","n">>

FileA == [name |-> <<"a",".","p","n","g">>, type |-> IMAGE_PNG,
          size |-> 4096, width |-> 1000, height |-> 800]
FileB == [name |-> <<"b",".","c",".","w","e","b","p">>, type |-> IMAGE_WEBP,
          size |-> 512, width |-> 3, height |-> 1]
FileT == [name |-> <<"t",".","t","x","t">>, type |-> TEXT_PLAIN,
          size |-> 7, width |-> 0, height |-> 0]
FileU == [name |-> <<"u">>, type |-> <<>>,
          size |-> 0, width |-> 0, height |-> 0]

Files == {FileA, FileB, FileT, FileU}
ImageFiles == {f \in Files : StartsWith(f.type, IMAGE_PREFIX)}

\* e.target.files?.[0] of a cancelled dialog
NoFile == [nofile |-> TRUE]

(***************************************************************************)
(* Platform objects.                                                       *)
(***************************************************************************)
\* FileReader.readAsDataURL: "data:<type>;base64,<content>"
ReadAsDataURL(file) ==
    [mime |-> file.type, bytes |-> file.size,
     pixels |-> [src |-> file.name, width |-> file.width, height |-> file.height]]

\* new Image(); img.src = dataUrl, once decoded
DecodedImage(dataUrl) ==
    [src |-> dataUrl, width |-> dataUrl.pixels.width, height |-> dataUrl.pixels.height]

\* canvas.toDataURL(mimeType, quality) of the canvas img was drawn on; n is the
\* byte count of what the platform encoder emits.  A canvas with no pixels
\* gives "data:,".
ToDataURL(img, width, height, mimeType, n) ==
    IF width = 0 \/ height = 0
    THEN [mime |-> <<>>, bytes |-> 0,
          pixels |-> [src |-> img.src.pixels.src, width |-> width, height |-> height]]
    ELSE [mime |-> mimeType, bytes |-> n,
          pixels |-> [src |-> img.src.pixels.src, width |-> width, height |-> height]]

PayloadLens == 1..MaxPayload

\* The length of base64 text without its "=" padding
Base64LengthUnpadded(dataUrl) == (4 * dataUrl.bytes + 2) \div 3

\* dataUrl.split(",")[1].length: base64 text of the payload, padded with "="

Base64Length(dataUrl) == 4 * ((dataUrl.bytes + 2) \div 3)

(***************************************************************************)
(* resizeImage                                                             *)
(***************************************************************************)
\* Faulty resizeImage: truncates instead of rounding.
\* VariantDimensionsRounded must fail with it.
resizeImageFloor(img, scale, originalType, n) ==
    LET newWidth  == MathRoundFloor(img.width, scale)
        newHeight == MathRoundFloor(img.height, scale)
        mimeType  == IF originalType = IMAGE_PNG THEN IMAGE_PNG ELSE IMAGE_JPEG
        dataUrl   == ToDataURL(img, newWidth, newHeight, mimeType, n)
    IN  [dataUrl |-> dataUrl, width |-> newWidth, height |-> newHeight,
         fileSize |-> MathRound3Quarters(Base64Length(dataUrl))]

\* Faulty resizeImage: an encoder that omits the base64 padding.
\* EstimateRoundsUpToMultipleOfThree must fail with it.
resizeImageUnpadded(img, scale, originalType, n) ==
    LET newWidth  == MathRoundTimes(img.width, scale)
        newHeight == MathRoundTimes(img.height, scale)
        mimeType  == IF originalType = IMAGE_PNG THEN IMAGE_PNG ELSE IMAGE_JPEG
        dataUrl   == ToDataURL(img, newWidth, newHeight, mimeType, n)
    IN  [dataUrl |-> dataUrl, width |-> newWidth, height |-> newHeight,
         fileSize |-> MathRound3Quarters(Base64LengthUnpadded(dataUrl))]

resizeImage(img, scale, originalType, n) ==
    LET newWidth  == MathRoundTimes(img.width, scale)
        newHeight == MathRoundTimes(img.height, scale)
        mimeType  == IF originalType = IMAGE_PNG THEN IMAGE_PNG ELSE IMAGE_JPEG
        dataUrl   == ToDataURL(img, newWidth, newHeight, mimeType, n)
    IN  [dataUrl |-> dataUrl, width |-> newWidth, height |-> newHeight,
         fileSize |-> MathRound3Quarters(Base64Length(dataUrl))]

(***************************************************************************)
(* Init: the state after the first render of Home.                         *)
(***************************************************************************)
Init ==
    /\ originalImage = Null
    /\ originalInfo = Null
    /\ resizedImages = <<>>
    /\ isProcessing = FALSE
    /\ selectedWidthScale = [num |-> 100, den |-> 100]
    /\ selectedFileSizeScales =
          << [num |-> 1, den |-> 2], [num |-> 1, den |-> 4], [num |-> 1, den |-> 8] >>
    /\ loadedImage = Null
    /\ readers = [f \in ImageFiles |-> 0]
    /\ images = [f \in ImageFiles |-> 0]
    /\ convert = Null
    /\ alerted = FALSE
    /\ lastAccepted = Null

RECURSIVE SumOver(_, _)
SumOver(f, S) ==
    IF S = {} THEN 0
    ELSE LET x == CHOOSE y \in S : TRUE IN f[x] + SumOver(f, S \ {x})

InFlight == SumOver(readers, ImageFiles) + SumOver(images, ImageFiles)

\* A new task may start: no continuation of an async handler is queued, and
\* no alert is open (window.alert blocks the event loop until it is dismissed).
Idle == convert = Null /\ ~alerted

(***************************************************************************)
(* handleFileChange: the change event of the file input                    *)
(***************************************************************************)
\* Faulty handleFileChange: setResizedImages([]) forgotten.
\* AcceptClearsVariants must fail with it.
handleFileChangeKeeps(file) ==
    /\ Idle
    /\ IF file = NoFile
       THEN UNCHANGED vars
       ELSE IF ~StartsWith(file.type, IMAGE_PREFIX)
       THEN /\ alerted' = TRUE
            /\ UNCHANGED <<state, readers, images, convert, lastAccepted>>
       ELSE /\ InFlight < MaxInFlight
            /\ resizedImages' = resizedImages
            /\ readers' = [readers EXCEPT ![file] = @ + 1]
            /\ lastAccepted' = file
            /\ UNCHANGED <<originalImage, originalInfo, isProcessing,
                           selectedWidthScale, selectedFileSizeScales,
                           loadedImage, images, convert, alerted>>

handleFileChange(file) ==
    /\ Idle
    /\ IF file = NoFile
       THEN UNCHANGED vars
       ELSE IF ~StartsWith(file.type, IMAGE_PREFIX)
       THEN /\ alerted' = TRUE
            /\ UNCHANGED <<state, readers, images, convert, lastAccepted>>
       ELSE /\ InFlight < MaxInFlight
            /\ resizedImages' = <<>>
            /\ readers' = [readers EXCEPT ![file] = @ + 1]
            /\ lastAccepted' = file
            /\ UNCHANGED <<originalImage, originalInfo, isProcessing,
                           selectedWidthScale, selectedFileSizeScales,
                           loadedImage, images, convert, alerted>>

\* The user dismisses the alert: handleFileChange returns.
dismissAlert ==
    /\ alerted
    /\ alerted' = FALSE
    /\ UNCHANGED <<state, readers, images, convert, lastAccepted>>

\* reader.onload of the FileReader that handleFileChange started for file
readerOnload(file) ==
    /\ Idle
    /\ readers[file] > 0
    /\ readers' = [readers EXCEPT ![file] = @ - 1]
    /\ originalImage' = ReadAsDataURL(file)
    /\ images' = [images EXCEPT ![file] = @ + 1]
    /\ UNCHANGED <<alerted, originalInfo, resizedImages, isProcessing, selectedWidthScale,
                   selectedFileSizeScales, loadedImage, convert, lastAccepted>>

\* img.onload of the Image that reader.onload created for file
imgOnload(file) ==
    /\ Idle
    /\ images[file] > 0
    /\ images' = [images EXCEPT ![file] = @ - 1]
    /\ LET img == DecodedImage(ReadAsDataURL(file))
       IN  /\ originalInfo' = [name |-> file.name, width |-> img.width,
                               height |-> img.height, fileSize |-> file.size,
                               type |-> file.type]
           /\ loadedImage' = img
    /\ UNCHANGED <<alerted, originalImage, resizedImages, isProcessing, selectedWidthScale,
                   selectedFileSizeScales, readers, convert, lastAccepted>>

(***************************************************************************)
(* The selection controls, rendered when originalInfo && originalImage     *)
(***************************************************************************)
ControlsRendered == originalInfo # Null /\ originalImage # Null

\* onClick of a width button: setSelectedWidthScale(option.value)
selectWidthScale(option) ==
    /\ Idle
    /\ ControlsRendered
    /\ selectedWidthScale' = option.value
    /\ UNCHANGED <<alerted, originalImage, originalInfo, resizedImages, isProcessing,
                   selectedFileSizeScales, loadedImage, readers, images,
                   convert, lastAccepted>>

Includes(a, x) == \E i \in 1..Len(a) : SameNumber(a[i], x)
Without(a, x) == SelectSeq(a, LAMBDA s : ~SameNumber(s, x))

\* Faulty toggle updater: the sort forgotten
ToggledUnsorted(prev, scale) ==
    IF Includes(prev, scale) THEN Without(prev, scale)
    ELSE Append(prev, scale)

\* handleFileSizeToggle: the updater passed to setSelectedFileSizeScales
Toggled(prev, scale) ==
    IF Includes(prev, scale) THEN Without(prev, scale)
    ELSE SortDesc(Append(prev, scale))

handleFileSizeToggle(scale) ==
    /\ Idle
    /\ ControlsRendered
    /\ selectedFileSizeScales' = Toggled(selectedFileSizeScales, scale)
    /\ UNCHANGED <<alerted, originalImage, originalInfo, resizedImages, isProcessing,
                   selectedWidthScale, loadedImage, readers, images,
                   convert, lastAccepted>>

(***************************************************************************)
(* handleConvert                                                           *)
(***************************************************************************)
UNDEFINED == <<"u","n","d","e","f","i","n","e","d">>

\* `${widthOption?.label}`
LabelOf(widthOption) == IF widthOption = Null THEN UNDEFINED ELSE widthOption.label

\* The body of the for loop for the scales from index i on; bytesOf[j] is the
\* byte count the encoder emits for the j-th canvas.
RECURSIVE ConvertLoop(_, _, _, _, _, _)
ConvertLoop(img, info, widthScale, scales, bytesOf, i) ==
    IF i > Len(scales) THEN <<>>
    ELSE
        LET fileSizeScale  == scales[i]
            widthOption    == Find(WIDTH_SCALE_OPTIONS, widthScale)
            fileSizeOption == Find(FILE_SIZE_OPTIONS, fileSizeScale)
            rest == ConvertLoop(img, info, widthScale, scales, bytesOf, i + 1)
        IN  IF fileSizeOption = Null THEN rest
            ELSE
                LET combinedScale == Times(widthScale, fileSizeScale)
                    result == resizeImage(img, combinedScale, info.type, bytesOf[i])
                IN  << [id |-> LabelOf(widthOption) \o <<"-">> \o fileSizeOption.ratio,
                        label |-> <<"U+6A2A">> \o LabelOf(widthOption)
                                  \o <<" ","U+00D7"," ","U+30D5","U+30A1","U+30A4","U+30EB">>
                                  \o fileSizeOption.label,
                        dataUrl |-> result.dataUrl,
                        width |-> result.width,
                        height |-> result.height,
                        fileSize |-> result.fileSize] >> \o rest

\* Faulty sort of handleConvert, ascending.
\* OneVariantPerFactorDescending must fail with it.
SortedForConvertAsc(scales) == SortAsc(scales)

\* selectedFileSizeScales.sort((a, b) => b - a), which sorts the array in place

SortedForConvert(scales) == SortDesc(scales)

\* Faulty guard of handleConvert, without the length test.
\* EmptySelectionIsNoOp must fail with it.
ConvertGuardNoEmptyCheck == loadedImage # Null /\ originalInfo # Null

\* The guard of handleConvert

ConvertGuard ==
    /\ loadedImage # Null
    /\ originalInfo # Null
    /\ Len(selectedFileSizeScales) # 0

\* The click on the convert button, up to the first await
handleConvert ==
    /\ Idle
    /\ UNCHANGED alerted
    /\ IF ~ConvertGuard
       THEN UNCHANGED <<state, readers, images, convert, lastAccepted>>
       ELSE /\ isProcessing' = TRUE
            /\ resizedImages' = <<>>
            /\ selectedFileSizeScales' = SortedForConvert(selectedFileSizeScales)
            /\ convert' = [loadedImage |-> loadedImage,
                           originalInfo |-> originalInfo,
                           selectedWidthScale |-> selectedWidthScale,
                           scales |-> SortedForConvert(selectedFileSizeScales)]
            /\ UNCHANGED <<originalImage, originalInfo, selectedWidthScale,
                           loadedImage, readers, images, lastAccepted>>

\* The rest of handleConvert, run from the microtask queue; the encoder emits
\* one of the byte counts in lens for each canvas.
convertResumeWith(lens) ==
    /\ convert # Null
    /\ \E bytesOf \in [1..Len(convert.scales) -> lens] :
          resizedImages' = ConvertLoop(convert.loadedImage, convert.originalInfo,
                                       convert.selectedWidthScale, convert.scales,
                                       bytesOf, 1)
    /\ isProcessing' = FALSE
    /\ convert' = Null
    /\ UNCHANGED <<alerted, originalImage, originalInfo, selectedWidthScale,
                   selectedFileSizeScales, loadedImage, readers, images,
                   lastAccepted>>

\* No guard of the page reads a byte count (it is stored and displayed only),
\* so the session follows one encoder output size.
convertResume == convertResumeWith({MaxPayload})

(***************************************************************************)
(* handleDownload, handleDownloadAll                                       *)
(***************************************************************************)
PNG == <<"p","n","g">>
JPG == <<"j","p","g">>

\* handleDownload(dataUrl, id): the links it clicks
DownloadLinks(info, dataUrl, id) ==
    IF info = Null THEN <<>>
    ELSE
        LET extension == IF info.type = IMAGE_PNG THEN PNG ELSE JPG
            baseName  == StripExt(info.name)
            fileName  == baseName \o <<"_">> \o id \o <<".">> \o extension
        IN  << [href |-> dataUrl, download |-> fileName] >>

\* link.click() of every link of a handler: a download leaves the page as it
\* is.  What is saved is the value of DownloadLinks.
Clicks(links) ==
    /\ \A k \in 1..Len(links) : links[k].download # <<>>
    /\ UNCHANGED alerted

\* The result list with its buttons is rendered
ResultsRendered == Len(resizedImages) > 0 /\ ~isProcessing

handleDownload(i) ==
    /\ Idle
    /\ ResultsRendered
    /\ Clicks(DownloadLinks(originalInfo, resizedImages[i].dataUrl,
                             resizedImages[i].id))
    /\ UNCHANGED <<state, readers, images, convert, lastAccepted>>

RECURSIVE AllLinks(_, _, _)
AllLinks(info, list, i) ==
    IF i > Len(list) THEN <<>>
    ELSE DownloadLinks(info, list[i].dataUrl, list[i].id) \o AllLinks(info, list, i + 1)

handleDownloadAll ==
    /\ Idle
    /\ ResultsRendered
    /\ Clicks(AllLinks(originalInfo, resizedImages, 1))
    /\ UNCHANGED <<state, readers, images, convert, lastAccepted>>

(***************************************************************************)
(* The specification                                                       *)
(***************************************************************************)
Next ==
    \/ \E file \in Files \cup {NoFile} : handleFileChange(file)
    \/ dismissAlert
    \/ \E file \in ImageFiles : readerOnload(file)
    \/ \E file \in ImageFiles : imgOnload(file)
    \/ \E option \in Range(WIDTH_SCALE_OPTIONS) : selectWidthScale(option)
    \/ \E option \in Range(FILE_SIZE_OPTIONS) : handleFileSizeToggle(option.value)
    \/ handleConvert
    \/ convertResume
    \/ \E i \in 1..Len(resizedImages) : handleDownload(i)
    \/ handleDownloadAll

Spec == Init /\ [][Next]_vars

(***************************************************************************)
(* The generator on its own: the session right after some image was loaded *)
(* and the user made some selection; then handleConvert runs, and the       *)
(* encoder may emit any byte count.                                        *)
(***************************************************************************)
\* Native widths and heights up to MaxDim, the 1000 x 800 source, and 10 and
\* 90, whose products with 0.7 * 0.5 are the ties 3.5 and 31.5.
MaxDim == 6

ResizeDims == (1..MaxDim) \cup {10, 90, 800, 1000}

ResizeFiles ==
    { [name |-> <<"r",".","p","n","g">>, type |-> t, size |-> 1,
       width |-> w, height |-> h] :
         t \in {IMAGE_PNG, IMAGE_WEBP}, w \in ResizeDims, h \in ResizeDims }

\* The selections the toggles can produce: every subset, in descending order
RECURSIVE Selection(_, _)
Selection(S, i) ==
    IF i > Len(FILE_SIZE_OPTIONS) THEN <<>>
    ELSE (IF FILE_SIZE_OPTIONS[i].value \in S
          THEN <<FILE_SIZE_OPTIONS[i].value>> ELSE <<>>) \o Selection(S, i + 1)

InitResize ==
    \E file \in ResizeFiles, option \in Range(WIDTH_SCALE_OPTIONS),
       S \in SUBSET {FILE_SIZE_OPTIONS[i].value : i \in 1..Len(FILE_SIZE_OPTIONS)} :
        /\ originalImage = ReadAsDataURL(file)
        /\ originalInfo = [name |-> file.name, width |-> file.width,
                           height |-> file.height, fileSize |-> file.size,
                           type |-> file.type]
        /\ loadedImage = DecodedImage(ReadAsDataURL(file))
        /\ resizedImages = <<>>
        /\ isProcessing = FALSE
        /\ selectedWidthScale = option.value
        /\ selectedFileSizeScales = Selection(S, 1)
        /\ readers = [f \in ImageFiles |-> 0]
        /\ images = [f \in ImageFiles |-> 0]
        /\ convert = Null
        /\ alerted = FALSE
        /\ lastAccepted = file

NextResize ==
    \/ handleConvert
    \/ convertResumeWith(PayloadLens)

SpecResize == InitResize /\ [][NextResize]_vars

(***************************************************************************)
(* Properties                                                              *)
(***************************************************************************)
\* The declared type does not begin with the six characters "image/".
NotAnImage(file) ==
    \/ Len(file.type) < 6
    \/ \E i \in 1..6 : file.type[i] # IMAGE_PREFIX[i]

\* C1: selecting a file whose declared type does not start with "image/"
\* leaves the preview, the source info, the decoded bitmap, the variant list,
\* the processing flag and both selections as they were, whatever they were,
\* and starts no file read (and no decode, and no generation), while the alert
\* is open and when it is dismissed.
NonImageChangesNothing ==
    [][\A file \in Files :
          ((NotAnImage(file) /\ handleFileChange(file)) \/ dismissAlert)
              => UNCHANGED <<originalImage, originalInfo, loadedImage,
                             resizedImages, isProcessing, selectedWidthScale,
                             selectedFileSizeScales, readers, images, convert>>]_vars

\* A non-image file is being rejected in a session that holds an image and
\* variants, has changed both selections and has a read or decode pending.
NonImageRejectedWitness ==
    /\ alerted
    /\ originalImage # Null /\ originalInfo # Null /\ loadedImage # Null
    /\ Len(resizedImages) > 0
    /\ selectedWidthScale # [num |-> 100, den |-> 100]
    /\ Len(selectedFileSizeScales) < 3
    /\ InFlight > 0

\* C2: accepting a file whose declared type starts with "image/" leaves the
\* variant list empty, whatever it held before.
AcceptClearsVariants ==
    [][\A file \in Files :
          (~NotAnImage(file) /\ handleFileChange(file)) => resizedImages' = <<>>]_vars

\* A second file was accepted over a loaded image: its read is pending, the
\* first image is still the held one, and the list is empty.
AcceptedOverLoadedWitness ==
    /\ lastAccepted # Null
    /\ loadedImage # Null
    /\ loadedImage.src.pixels.src # lastAccepted.name
    /\ readers[lastAccepted] > 0
    /\ resizedImages = <<>>

\* C3: invoking generation while no file-size factor is selected is a no-op:
\* the variant list (empty or not) and the rest of the session state are
\* unchanged, the processing flag is not raised, no continuation that would
\* resample is queued.
EmptySelectionIsNoOp ==
    [][(Len(selectedFileSizeScales) = 0 /\ handleConvert)
          => /\ UNCHANGED <<originalImage, originalInfo, loadedImage,
                            resizedImages, isProcessing, selectedWidthScale,
                            selectedFileSizeScales, readers, images>>
             /\ isProcessing' = FALSE
             /\ convert' = Null]_vars

\* An image is loaded, variants are listed, every factor has been deselected
\* and the convert handler can run.
EmptySelectionWitness ==
    /\ Len(selectedFileSizeScales) = 0
    /\ loadedImage # Null /\ originalInfo # Null
    /\ Idle
    /\ ~isProcessing
    /\ Len(resizedImages) > 0

\* r is an integer nearest to n * scale: r - 1/2 <= n * scale <= r + 1/2,
\* compared as squares (scale is the square root of num/den).
Nearest(r, n, scale) ==
    IF r = 0 THEN 4 * n * n * scale.num <= scale.den
    ELSE /\ (2 * r - 1) * (2 * r - 1) * scale.den <= 4 * n * n * scale.num
         /\ 4 * n * n * scale.num <= (2 * r + 1) * (2 * r + 1) * scale.den

\* v carries the id of the pair (width option, file-size option)
GeneratedFor(v, widthOption, fileSizeOption) ==
    v.id = widthOption.label \o <<"-">> \o fileSizeOption.ratio

OptionPairs == Range(WIDTH_SCALE_OPTIONS) \X Range(FILE_SIZE_OPTIONS)

PairsOf(v) == {p \in OptionPairs : GeneratedFor(v, p[1], p[2])}

\* 1000 x 800 at width scale 1.0
Example(fileSizeOption) ==
    IF fileSizeOption.value = [num |-> 1, den |-> 2] THEN <<707, 566>>
    ELSE IF fileSizeOption.value = [num |-> 1, den |-> 4] THEN <<500, 400>>
    ELSE <<354, 283>>

\* C4: the variant generated for (w, f) from an image of any native size has
\* width = round(native width * w * f) and height = round(native height * w * f),
\* each rounded to the nearest integer on its own; 1000 x 800 at w = 1.0 gives
\* 707 x 566, 500 x 400 and 354 x 283.  A finished run holds the variant of
\* every selected f at the selected w.
VariantDimensionsRounded ==
    /\ \A i \in 1..Len(resizedImages) :
          LET v == resizedImages[i]
          IN  /\ PairsOf(v) # {}
              /\ \A p \in PairsOf(v) :
                    LET combined == Times(p[1].value, p[2].value)
                    IN  /\ Nearest(v.width, loadedImage.width, combined)
                        /\ Nearest(v.height, loadedImage.height, combined)
                        /\ (/\ loadedImage.width = 1000
                            /\ loadedImage.height = 800
                            /\ p[1].value = [num |-> 100, den |-> 100])
                              => <<v.width, v.height>> = Example(p[2])
    /\ (Idle /\ Len(resizedImages) > 0) =>
          \A k \in 1..Len(selectedFileSizeScales) :
              \E i \in 1..Len(resizedImages) :
                  GeneratedFor(resizedImages[i],
                               Find(WIDTH_SCALE_OPTIONS, selectedWidthScale),
                               Find(FILE_SIZE_OPTIONS, selectedFileSizeScales[k]))

\* The tie 90 * 0.7 * 0.5 = 31.5 came out as 31 and the tie 10 * 0.7 * 0.5 = 3.5
\* as 4.
TieVariantsWitness ==
    /\ loadedImage # Null
    /\ loadedImage.width = 90 /\ loadedImage.height = 10
    /\ Len(resizedImages) = 1
    /\ resizedImages[1].id = <<"7","0","%","-","1","-","4">>
    /\ <<resizedImages[1].width, resizedImages[1].height>> = <<31, 4>>

\* The three variants of the 1000 x 800 source at w = 1.0 are in the list.
ExampleVariantsWitness ==
    /\ loadedImage # Null
    /\ loadedImage.width = 1000 /\ loadedImage.height = 800
    /\ Len(resizedImages) = 3
    /\ <<resizedImages[1].width, resizedImages[1].height>> = <<707, 566>>
    /\ <<resizedImages[2].width, resizedImages[2].height>> = <<500, 400>>
    /\ <<resizedImages[3].width, resizedImages[3].height>> = <<354, 283>>

\* The file-size factor a variant was generated for
FactorOf(v) ==
    (CHOOSE p \in OptionPairs : GeneratedFor(v, p[1], p[2]))[2].value

\* C5: when a generation run completes, the list holds exactly one variant per
\* selected file-size factor, in descending order of the factor, whatever the
\* order of the toggles that produced the selection.
OneVariantPerFactorDescending ==
    [][(convert # Null /\ convert' = Null) =>
          LET list == resizedImages'
              selected == {selectedFileSizeScales[k] : k \in 1..Len(selectedFileSizeScales)}
          IN  /\ Len(list) = Cardinality(selected)
              /\ Len(list) > 0
              /\ {FactorOf(list[i]) : i \in 1..Len(list)} = selected
              /\ \A i, j \in 1..Len(list) :
                    i < j => Greater(FactorOf(list[i]), FactorOf(list[j]))]_vars

\* A run over the selection {1/sqrt(2), 1/sqrt(8)}, which takes toggles to
\* reach, has completed.
TwoFactorRunWitness ==
    /\ Idle /\ ~isProcessing
    /\ Len(resizedImages) = 2
    /\ FactorOf(resizedImages[1]) = [num |-> 1, den |-> 2]
    /\ FactorOf(resizedImages[2]) = [num |-> 1, den |-> 8]

\* C6 as claimed: the stored estimate is the exact byte count of the payload.
EstimateIsExactByteCount ==
    \A i \in 1..Len(resizedImages) :
        resizedImages[i].fileSize = resizedImages[i].dataUrl.bytes

\* C6 as amended: the stored estimate is the byte count of the payload rounded
\* up to a multiple of 3, so it is exact for a payload of 3k bytes and 1 or 2
\* bytes too large otherwise.
EstimateRoundsUpToMultipleOfThree ==
    \A i \in 1..Len(resizedImages) :
        LET v == resizedImages[i]
            n == v.dataUrl.bytes
        IN  /\ v.fileSize % 3 = 0
            /\ n <= v.fileSize
            /\ v.fileSize <= n + 2

\* One run produced a payload of 1 byte estimated at 3, one of 2 bytes
\* estimated at 3 and one of 3 bytes estimated at 3.
EstimateWitness ==
    /\ Len(resizedImages) = 3
    /\ \A n \in 1..3 :
          \E i \in 1..3 : /\ resizedImages[i].dataUrl.bytes = n
                          /\ resizedImages[i].fileSize = 3

\* C7: for a source of at least 1 x 1 pixels the combined scale of every
\* variant is in (0, 1] and its width and height are at least 1 pixel.
DimensionsAtLeastOnePixel ==
    (loadedImage # Null /\ loadedImage.width >= 1 /\ loadedImage.height >= 1) =>
        \A i \in 1..Len(resizedImages) :
            LET v == resizedImages[i]
            IN  /\ \A p \in PairsOf(v) :
                      LET combined == Times(p[1].value, p[2].value)
                      IN  0 < combined.num /\ combined.num <= combined.den
                /\ v.width >= 1
                /\ v.height >= 1

\* The file a variant was drawn from
SourceFile(v) == CHOOSE f \in Files : f.name = v.dataUrl.pixels.src

\* C8: every download the page offers is named <stem>_<id>.<ext>, with the
\* stem of the file the variant was generated from and the extension of the
\* codec its payload was encoded with (png for image/png, jpg otherwise), and
\* carries that variant's payload.
DownloadNamedAfterSourceAndCodec ==
    (Idle /\ ResultsRendered) =>
        \A i \in 1..Len(resizedImages) :
            LET v == resizedImages[i]
                links == DownloadLinks(originalInfo, v.dataUrl, v.id)
            IN  /\ Len(links) = 1
                /\ links[1].href = v.dataUrl
                /\ links[1].download =
                      StripExt(SourceFile(v).name) \o <<"_">> \o v.id \o <<".">>
                      \o (IF v.dataUrl.mime = IMAGE_PNG THEN PNG ELSE JPG)

\* What an intake of file leaves in the session once its callbacks have run
HeldAfterIntake(file) ==
    /\ loadedImage = DecodedImage(ReadAsDataURL(file))
    /\ originalInfo = [name |-> file.name, width |-> file.width,
                       height |-> file.height, fileSize |-> file.size,
                       type |-> file.type]

\* C9: once every pending read and decode callback has run, the held source
\* image (bitmap, name, dimensions, byte size, type) is that of the file
\* accepted last, also when an earlier intake was still pending at that time.
LatestAcceptedFileIsHeld ==
    (lastAccepted # Null /\ InFlight = 0) => HeldAfterIntake(lastAccepted)

\* `U+6A2A${widthOption.label} U+00D7 U+30D5U+30A1U+30A4U+30EB${fileSizeOption.label}`
LabelTextOf(widthOption, fileSizeOption) ==
    <<"U+6A2A">> \o widthOption.label
    \o <<" ","U+00D7"," ","U+30D5","U+30A1","U+30A4","U+30EB">>
    \o fileSizeOption.label

\* C10: in every reachable state the variants of the list have pairwise
\* distinct ids and labels, and the id and label of each name exactly one
\* (width scale, file-size scale) pair, the one whose combined scale gives the
\* variant's width and height from the image it was drawn from.
LabelsIdentifyVariants ==
    /\ \A i, j \in 1..Len(resizedImages) :
          i # j => /\ resizedImages[i].id # resizedImages[j].id
                   /\ resizedImages[i].label # resizedImages[j].label
    /\ \A i \in 1..Len(resizedImages) :
          LET v == resizedImages[i]
          IN  /\ Cardinality(PairsOf(v)) = 1
              /\ \A p \in PairsOf(v) :
                    LET combined == Times(p[1].value, p[2].value)
                    IN  /\ v.label = LabelTextOf(p[1], p[2])
                        /\ \A q \in OptionPairs :
                              v.label = LabelTextOf(q[1], q[2]) => q = p
                        /\ Nearest(v.width, SourceFile(v).width, combined)
                        /\ Nearest(v.height, SourceFile(v).height, combined)
                        /\ v.dataUrl.pixels.width = v.width
                        /\ v.dataUrl.pixels.height = v.height

\* Three variants at a width scale other than 100% are listed while the
\* selected width scale has already been changed again.
LabelledVariantsWitness ==
    /\ Len(resizedImages) = 3
    /\ \A p \in PairsOf(resizedImages[1]) :
          /\ p[1].value # [num |-> 100, den |-> 100]
          /\ p[1].value # selectedWidthScale

\* The factors the file-size buttons offer
OfferedFactors == {o.value : o \in Range(FILE_SIZE_OPTIONS)}

\* a is strictly descending, hence free of duplicates
StrictlyDescending(a) ==
    \A i, j \in 1..Len(a) : i < j => Greater(a[i], a[j])

\* C11: from the initial selection of all three factors on, the selection is
\* always a strictly descending (hence duplicate-free) list of offered
\* file-size factors; a toggle of an absent factor adds it and nothing else, a
\* toggle of a present factor removes it and nothing else, and toggling the
\* same factor once more gives back the selection the first toggle started
\* from.
SelectionSortedAndTogglesInvolutive ==
    /\ [](/\ Range(selectedFileSizeScales) \subseteq OfferedFactors
          /\ StrictlyDescending(selectedFileSizeScales))
    /\ [][\A o \in Range(FILE_SIZE_OPTIONS) :
             handleFileSizeToggle(o.value) =>
                LET before == Range(selectedFileSizeScales)
                    after  == Range(selectedFileSizeScales')
                IN  /\ o.value \notin before => after = before \cup {o.value}
                    /\ o.value \in before => after = before \ {o.value}
                    /\ Toggled(selectedFileSizeScales', o.value)
                          = selectedFileSizeScales]_vars

\* The largest factor was added back after a run over 1/sqrt(8) alone: the
\* updater had to sort it in front of the factor that was still selected.
ToggledBackInFrontWitness ==
    /\ Idle /\ ~isProcessing
    /\ Len(resizedImages) = 1
    /\ FactorOf(resizedImages[1]) = [num |-> 1, den |-> 8]
    /\ selectedFileSizeScales = << [num |-> 1, den |-> 2], [num |-> 1, den |-> 8] >>

\* C12: in every reachable state every variant of the list was generated from
\* the source image the session holds: the file it was drawn from is the one
\* named in originalInfo and decoded in loadedImage, and its codec is the one
\* chosen for the type in originalInfo.
VariantsComeFromHeldImage ==
    \A i \in 1..Len(resizedImages) :
        LET v == resizedImages[i]
        IN  /\ originalInfo # Null
            /\ loadedImage # Null
            /\ v.dataUrl.pixels.src = originalInfo.name
            /\ v.dataUrl.pixels.src = loadedImage.src.pixels.src
            /\ v.dataUrl.mime \in
                  {<<>>, IF originalInfo.type = IMAGE_PNG THEN IMAGE_PNG ELSE IMAGE_JPEG}

\* C13: once no read or decode callback is pending, the preview, the source
\* info and the decoded bitmap all come from one and the same accepted file,
\* whatever the order in which the callbacks of overlapping intakes ran.
PreviewInfoAndBitmapAgree ==
    (lastAccepted # Null /\ InFlight = 0) =>
        \E file \in ImageFiles :
            /\ originalImage = ReadAsDataURL(file)
            /\ HeldAfterIntake(file)

====
